---- MODULE Spec2Model ----
(***************************************************************************)
(* Model of the route index of traveltreap.py: the Treap (randomised       *)
(* binary search tree), the Trie (autocomplete), the LocationGraph that    *)
(* owns both plus the list of locations, and the App handlers that feed    *)
(* it.                                                                     *)
(*                                                                         *)
(* A Python str is a sequence of code points (ASCII here).  None is the    *)
(* empty tuple; a TreapNode is a 1-tuple holding the record of its fields, *)
(* so that "root is None" is an equality test between tuples.              *)
(***************************************************************************)
EXTENDS Integers, Sequences, FiniteSets, Bags, TLC

VARIABLES
    locations,             \* LocationGraph.locations: list of str
    treap,                 \* LocationGraph.treap.root (Treap.root)
    trie,                  \* LocationGraph.trie.root (Trie.root)
    arrival_entry,         \* App.arrival_entry: text of the widget
    destination_entry,     \* App.destination_entry: text of the widget
    autocomplete_listbox,  \* App.autocomplete_listbox: the listed suggestions
    result_label,          \* App.result_label: the pair last reported as added
    json_file,             \* locations.json: whether it exists, and its "locations" list
    window,                \* App.window: "open" until clearJson destroys it
    handler,               \* the App handler that ran last ("" before any)
    words,                 \* the words a caller has passed to Trie.insert so far
    keys,                  \* the set of keys a caller has passed to Treap.insertNode
    found                  \* a caller's last Treap.searchPrefix call: <<prefix, result>>

vars == <<locations, treap, trie, arrival_entry, destination_entry,
          autocomplete_listbox, result_label, json_file, window, handler, words, keys, found>>

(***************************************************************************)
(* Bounds of the model.                                                    *)
(***************************************************************************)
\* priorities are drawn in 1..MaxPriority (the program draws in 1..100)
MaxPriority == 3
\* number of Treap.insertNode calls in SpecTreap
MaxInserts == 4
\* number of Treap.insertNode calls in SpecSearch
MaxSearchInserts == 3
\* number of Trie.insert calls in SpecTrie
MaxWords == 3
\* number of LocationGraph.addLocations calls in SpecGraph
MaxRoutes == 3
\* number of accepted submissions in Spec
MaxSubmits == 2
\* priorities are drawn in 1..MaxRoutePriority in SpecGraph and Spec
MaxRoutePriority == 2

(***************************************************************************)
(* Python str operations.                                                  *)
(***************************************************************************)
Range(s) == {s[i] : i \in 1..Len(s)}

\* str.lower() on one ASCII character: 'A'..'Z' -> 'a'..'z'
lowerChar(c) == IF c >= 65 /\ c <= 90 THEN c + 32 ELSE c

\* str.lower()
lower(s) == [i \in 1..Len(s) |-> lowerChar(s[i])]

\* str.upper() on ASCII, used to build differently-cased queries
upper(s) == [i \in 1..Len(s) |-> IF s[i] >= 97 /\ s[i] <= 122 THEN s[i] - 32 ELSE s[i]]

\* the characters str.strip() removes (str.isspace() within ASCII)
isspace(c) == c \in {9, 10, 11, 12, 13, 28, 29, 30, 31, 32}

RECURSIVE lstrip(_)
lstrip(s) == IF s # <<>> /\ isspace(Head(s)) THEN lstrip(Tail(s)) ELSE s

RECURSIVE rstrip(_)
rstrip(s) ==
    IF s # <<>> /\ isspace(s[Len(s)]) THEN rstrip(SubSeq(s, 1, Len(s) - 1)) ELSE s

\* str.strip()
strip(s) == rstrip(lstrip(s))

\* str.startswith(prefix)
startswith(s, prefix) ==
    Len(prefix) <= Len(s) /\ SubSeq(s, 1, Len(prefix)) = prefix

\* a < b on str: lexicographic by code point, a proper prefix is smaller
RECURSIVE StrLess(_, _)
StrLess(a, b) ==
    IF b = <<>> THEN FALSE
    ELSE IF a = <<>> THEN TRUE
    ELSE IF a[1] < b[1] THEN TRUE
    ELSE IF a[1] > b[1] THEN FALSE
    ELSE StrLess(Tail(a), Tail(b))

(***************************************************************************)
(* Treap.                                                                  *)
(***************************************************************************)
None == <<>>

\* TreapNode(location), with the value random.randint draws passed in
TreapNode(location, priority) ==
    <<[location |-> location, priority |-> priority, left |-> None, right |-> None]>>

rotateRight_mirrored(root) ==
    LET leftChild == root[1].left
    IN  <<[leftChild[1] EXCEPT !.left = root]>>

rotateRight(root) ==
    LET leftChild == root[1].left
        root2 == <<[root[1] EXCEPT !.left = leftChild[1].right]>>
    IN  <<[leftChild[1] EXCEPT !.right = root2]>>

rotateLeft_noop(root) == root

rotateLeft_dropsSubtree(root) ==
    LET rightChild == root[1].right
        root2 == <<[root[1] EXCEPT !.right = None]>>
    IN  <<[rightChild[1] EXCEPT !.left = root2]>>

rotateLeft(root) ==
    LET rightChild == root[1].right
        root2 == <<[root[1] EXCEPT !.right = rightChild[1].left]>>
    IN  <<[rightChild[1] EXCEPT !.left = root2]>>

RECURSIVE Treap_insert_flipped(_, _, _)
Treap_insert_flipped(root, location, priority) ==
    IF root = None THEN TreapNode(location, priority)
    ELSE IF StrLess(root[1].location, location)
    THEN LET root2 == <<[root[1] EXCEPT !.left =
                            Treap_insert_flipped(root[1].left, location, priority)]>>
         IN  IF root2[1].left[1].priority > root2[1].priority
             THEN rotateRight(root2) ELSE root2
    ELSE LET root2 == <<[root[1] EXCEPT !.right =
                            Treap_insert_flipped(root[1].right, location, priority)]>>
         IN  IF root2[1].right[1].priority > root2[1].priority
             THEN rotateLeft(root2) ELSE root2

\* Treap.insert(root, location); priority is what TreapNode.__init__ draws
RECURSIVE Treap_insert(_, _, _)
Treap_insert(root, location, priority) ==
    IF root = None THEN TreapNode(location, priority)
    ELSE IF StrLess(location, root[1].location)
    THEN LET root2 == <<[root[1] EXCEPT !.left = Treap_insert(root[1].left, location, priority)]>>
         IN  IF root2[1].left[1].priority > root2[1].priority
             THEN rotateRight(root2) ELSE root2
    ELSE LET root2 == <<[root[1] EXCEPT !.right = Treap_insert(root[1].right, location, priority)]>>
         IN  IF root2[1].right[1].priority > root2[1].priority
             THEN rotateLeft(root2) ELSE root2

RECURSIVE Treap_search_bothSides(_, _)
Treap_search_bothSides(root, prefix) ==
    IF root = None THEN <<>>
    ELSE (IF startswith(root[1].location, prefix) THEN <<root[1].location>> ELSE <<>>)
         \o Treap_search_bothSides(root[1].left, prefix)
         \o Treap_search_bothSides(root[1].right, prefix)

\* Treap.search(root, prefix)
RECURSIVE Treap_search(_, _)
Treap_search(root, prefix) ==
    IF root = None THEN <<>>
    ELSE (IF startswith(root[1].location, prefix) THEN <<root[1].location>> ELSE <<>>)
         \o (IF StrLess(prefix, root[1].location)
             THEN Treap_search(root[1].left, prefix)
             ELSE Treap_search(root[1].right, prefix))

\* Treap.searchPrefix(prefix) on the treap rooted at root
searchPrefix(root, prefix) == Treap_search(root, prefix)

(***************************************************************************)
(* Trie.  TrieNode.children is a dict: here the sequence of its items      *)
(* [char, child] in the order the keys were first set, which is the order  *)
(* dict.items() yields them in.                                            *)
(***************************************************************************)
\* TrieNode()
TrieNode == [children |-> <<>>, is_end_of_word |-> FALSE]

\* position of char among the keys of children, 0 when "char not in children"
childIndex(children, char) ==
    IF \E i \in 1..Len(children) : children[i].char = char
    THEN CHOOSE i \in 1..Len(children) : children[i].char = char
    ELSE 0

\* the loop of Trie.insert from node current on, over the characters left
RECURSIVE insertFrom_overwrite(_, _)
insertFrom_overwrite(current, word) ==
    IF word = <<>> THEN [current EXCEPT !.is_end_of_word = TRUE]
    ELSE LET char == Head(word)
             i == childIndex(current.children, char)
             fresh == insertFrom_overwrite(TrieNode, Tail(word))
         IN  IF i = 0
             THEN [current EXCEPT !.children =
                      Append(@, [char |-> char, child |-> fresh])]
             ELSE [current EXCEPT !.children[i].child = fresh]

RECURSIVE insertFrom(_, _)
insertFrom(current, word) ==
    IF word = <<>> THEN [current EXCEPT !.is_end_of_word = TRUE]
    ELSE LET char == Head(word)
             i == childIndex(current.children, char)
         IN  IF i = 0
             THEN [current EXCEPT !.children =
                      Append(@, [char |-> char,
                                 child |-> insertFrom(TrieNode, Tail(word))])]
             ELSE [current EXCEPT !.children[i].child = insertFrom(@, Tail(word))]

\* Trie.insert(word) on the trie rooted at root
Trie_insert(root, word) == insertFrom(root, lower(word))

\* Trie.findWords(node, prefix); findWordsItems is its loop over children.items()
RECURSIVE findWords(_, _), findWordsItems(_, _)
findWords(node, prefix) ==
    (IF node.is_end_of_word THEN <<prefix>> ELSE <<>>)
    \o findWordsItems(node.children, prefix)

findWordsItems(items, prefix) ==
    IF items = <<>> THEN <<>>
    ELSE findWords(Head(items).child, Append(prefix, Head(items).char))
         \o findWordsItems(Tail(items), prefix)

\* the loop of Trie.search: the node reached as <<node>>, or <<>> where the
\* code returns [] because a character is missing
RECURSIVE walk(_, _)
walk(current, prefix) ==
    IF prefix = <<>> THEN <<current>>
    ELSE LET i == childIndex(current.children, Head(prefix))
         IN  IF i = 0 THEN <<>>
             ELSE walk(current.children[i].child, Tail(prefix))

Trie_search_keepcase(root, prefix) ==
    LET reached == walk(root, prefix)
    IN  IF reached = <<>> THEN <<>> ELSE findWords(reached[1], prefix)

\* Trie.search(prefix) on the trie rooted at root
Trie_search(root, prefix) ==
    LET reached == walk(root, lower(prefix))
    IN  IF reached = <<>> THEN <<>> ELSE findWords(reached[1], lower(prefix))

(***************************************************************************)
(* Views of a treap used to state its properties.                          *)
(***************************************************************************)
\* the keys of the treap in in-order (left, node, right)
RECURSIVE inorder(_)
inorder(root) ==
    IF root = None THEN <<>>
    ELSE inorder(root[1].left) \o <<root[1].location>> \o inorder(root[1].right)

\* every node of the treap, as the subtree it roots
RECURSIVE nodes(_)
nodes(root) ==
    IF root = None THEN {}
    ELSE {root} \cup nodes(root[1].left) \cup nodes(root[1].right)

RECURSIVE size(_)
size(root) ==
    IF root = None THEN 0 ELSE 1 + size(root[1].left) + size(root[1].right)

\* the multiset of the elements of a sequence
RECURSIVE BagOfSeq(_)
BagOfSeq(s) == IF s = <<>> THEN EmptyBag ELSE BagOfSeq(Tail(s)) (+) SetToBag({Head(s)})

(***************************************************************************)
(* Initial state: LocationGraph() and App() just constructed.              *)
(***************************************************************************)
Init ==
    /\ locations = <<>>
    /\ treap = None
    /\ trie = TrieNode
    /\ arrival_entry = <<>>
    /\ destination_entry = <<>>
    /\ autocomplete_listbox = <<>>
    /\ result_label = <<>>
    /\ json_file = [exists |-> FALSE, locations |-> <<>>]
    /\ window = "open"
    /\ handler = ""
    /\ words = <<>>
    /\ keys = {}
    /\ found = <<>>

(***************************************************************************)
(* SpecTreap: a caller inserting keys into a Treap.                        *)
(***************************************************************************)
\* "a", "ab", "b", "Ba"
TreapKeys == {<<97>>, <<97, 98>>, <<98>>, <<66, 97>>}

\* Treap.insertNode(location); priority is the draw of random.randint(1, 100)
insertNode(location, priority) ==
    /\ size(treap) < MaxInserts
    /\ treap' = Treap_insert(treap, location, priority)
    /\ keys' = keys \cup {location}
    /\ UNCHANGED <<locations, trie, arrival_entry, destination_entry,
                   autocomplete_listbox, result_label, json_file, window, handler,
                   words, found>>

NextTreap == \E location \in TreapKeys, priority \in 1..MaxPriority :
                 insertNode(location, priority)

SpecTreap == Init /\ [][NextTreap]_vars

\* C1: after any sequence of insertNode calls the in-order traversal of the
\* treap is in non-decreasing lexicographic order (rotations keep it so).
C1_BSTOrder ==
    LET s == inorder(treap)
    IN  \A i \in 1..(Len(s) - 1) : ~StrLess(s[i + 1], s[i])

\* C1 witness: a treap holding duplicates where a rotation has put a key
\* equal to a node's key into that node's left subtree.
C1_Witness ==
    /\ size(treap) >= 3
    /\ \E n \in nodes(treap) :
          /\ n[1].left # None
          /\ n[1].left[1].location = n[1].location

\* C2: every node's priority is >= the priority of each of its children.
C2_HeapOrder ==
    \A n \in nodes(treap) :
        /\ n[1].left # None => n[1].priority >= n[1].left[1].priority
        /\ n[1].right # None => n[1].priority >= n[1].right[1].priority

\* C2 witness: a treap in which one child ties with its parent's priority and
\* another child has a strictly smaller one, after a rotation to the left.
C2_Witness ==
    /\ \E n \in nodes(treap) :
          n[1].right # None /\ n[1].right[1].priority = n[1].priority
    /\ \E n \in nodes(treap) :
          /\ n[1].left # None /\ n[1].left[1].priority < n[1].priority
          /\ ~StrLess(n[1].left[1].location, n[1].location)

(***************************************************************************)
(* SpecSearch: a caller inserting keys into a Treap and searching it.      *)
(***************************************************************************)
\* the prefixes a caller searches: "", "a", "ab", "b", "B", "c"
TreapQueries == {<<>>, <<97>>, <<97, 98>>, <<98>>, <<66>>, <<99>>}

\* Treap.insertNode(location), as in SpecTreap
insertKey(location, priority) ==
    /\ size(treap) < MaxSearchInserts
    /\ treap' = Treap_insert(treap, location, priority)
    /\ keys' = keys \cup {location}
    /\ UNCHANGED <<locations, trie, arrival_entry, destination_entry,
                   autocomplete_listbox, result_label, json_file, window, handler,
                   words, found>>

\* a caller's Treap.searchPrefix(prefix), keeping the prefix and the result
callSearchPrefix(prefix) ==
    /\ found' = <<prefix, searchPrefix(treap, prefix)>>
    /\ UNCHANGED <<locations, treap, trie, arrival_entry, destination_entry,
                   autocomplete_listbox, result_label, json_file, window, handler,
                   words, keys>>

NextSearch ==
    \/ \E location \in TreapKeys, priority \in 1..MaxPriority :
           insertKey(location, priority)
    \/ \E prefix \in TreapQueries : callSearchPrefix(prefix)

SpecSearch == Init /\ [][NextSearch]_vars

\* the keys of the nodes from root down the one path on which a search for
\* prefix goes left where prefix < key and right otherwise
RECURSIVE PathKeys(_, _)
PathKeys(root, prefix) ==
    IF root = None THEN <<>>
    ELSE IF StrLess(prefix, root[1].location)
         THEN <<root[1].location>> \o PathKeys(root[1].left, prefix)
         ELSE <<root[1].location>> \o PathKeys(root[1].right, prefix)

\* the keys on that path that start with prefix, in root-to-leaf order
MatchesOnPath(root, prefix) ==
    LET Starts(key) == startswith(key, prefix)
    IN  SelectSeq(PathKeys(root, prefix), Starts)

\* C11: searchPrefix(prefix) returns exactly the keys on the single descent
\* path that start with prefix (case-sensitive), in root-to-leaf order; so
\* every returned key starts with prefix and was inserted, a prefix matching
\* no key gives the empty list, and a search leaves the tree as it was.
C11_SinglePath ==
    /\ [](\A prefix \in TreapQueries :
            LET result == searchPrefix(treap, prefix)
            IN  /\ result = MatchesOnPath(treap, prefix)
                /\ \A r \in Range(result) : startswith(r, prefix) /\ r \in keys
                /\ (\A k \in keys : ~startswith(k, prefix)) => result = <<>>)
    /\ [][found' # found =>
              /\ treap' = treap
              /\ found'[2] = MatchesOnPath(treap, found'[1])]_vars

\* C11 witness: a search on a treap of three nodes has returned two keys while
\* a third key starting with the prefix sits off the path, and another search
\* with a prefix matching no key would return nothing.
C11_Witness ==
    /\ size(treap) = 3
    /\ found # <<>>
    /\ found[2] = searchPrefix(treap, found[1])
    /\ Len(found[2]) = 2
    /\ \A k \in keys : startswith(k, found[1])
    /\ searchPrefix(treap, <<99>>) = <<>>

\* how many times key occurs in sequence s
Occurrences(s, key) == Cardinality({i \in 1..Len(s) : s[i] = key})

\* C12: for every key k that was inserted, searchPrefix(k) contains k at
\* least once, whatever the priority draws and the rotations they caused.
C12_ExactLookup ==
    \A k \in keys : k \in Range(searchPrefix(treap, k))

\* C12 witness: a key was inserted twice, a rotation has left one copy in the
\* left subtree of the other, and the search for it returns it just once.
C12_Witness ==
    /\ size(treap) = 3
    /\ \E n \in nodes(treap) :
          /\ n[1].left # None
          /\ n[1].left[1].location = n[1].location
          /\ Occurrences(inorder(treap), n[1].location) = 2
          /\ Occurrences(searchPrefix(treap, n[1].location), n[1].location) = 1

(***************************************************************************)
(* SpecTrie: a caller inserting words into a Trie.                         *)
(***************************************************************************)
\* "", "a", "A", "ab", "Ab", "abc", "b"
TrieWords == {<<>>, <<97>>, <<65>>, <<97, 98>>, <<65, 98>>, <<97, 98, 99>>, <<98>>}

\* Trie.insert(word), the caller keeping the list of what it inserted
insertWord(word) ==
    /\ Len(words) < MaxWords
    /\ trie' = Trie_insert(trie, word)
    /\ words' = Append(words, word)
    /\ UNCHANGED <<locations, treap, arrival_entry, destination_entry,
                   autocomplete_listbox, result_label, json_file, window, handler,
                   keys, found>>

NextTrie == \E word \in TrieWords : insertWord(word)

SpecTrie == Init /\ [][NextTrie]_vars

\* the prefixes of s, the empty one and s itself included
PrefixesOf(s) == {SubSeq(s, 1, n) : n \in 0..Len(s)}

\* p as written, lower-cased and upper-cased
CaseVariants(p) == {p, lower(p), upper(p)}

\* the strings that are a prefix of s ignoring case (a sample: each prefix of
\* s in the three casings)
PrefixesIgnoringCase(s) == UNION {CaseVariants(p) : p \in PrefixesOf(s)}

\* the queries put to the trie of SpecTrie
TrieQueries == UNION {PrefixesIgnoringCase(w) : w \in TrieWords} \cup {<<98, 97>>}

\* C3: for every inserted word W and every p that is a prefix of W ignoring
\* case, Trie.search(p) contains W.
C3_TrieComplete ==
    \A W \in Range(words) : \A p \in PrefixesIgnoringCase(W) :
        W \in Range(Trie_search(trie, p))

\* What the code does give for C3: search(p) contains W lower-cased.
TrieCompleteLowered ==
    \A W \in Range(words) : \A p \in PrefixesIgnoringCase(W) :
        lower(W) \in Range(Trie_search(trie, p))

\* C4: every string Trie.search(p) returns starts with p ignoring case and is
\* a word that was inserted (so never a mere prefix or extension of one).
C4_TrieSound ==
    \A p \in TrieQueries : \A r \in Range(Trie_search(trie, p)) :
        /\ startswith(lower(r), lower(p))
        /\ r \in Range(words)

\* What the code does give for C4: each result is an inserted word lower-cased.
TrieSoundLowered ==
    \A p \in TrieQueries : \A r \in Range(Trie_search(trie, p)) :
        /\ startswith(r, lower(p))
        /\ r \in {lower(W) : W \in Range(words)}

(***************************************************************************)
(* LocationGraph.                                                          *)
(***************************************************************************)
\* " -> "
Arrow == <<32, 45, 62, 32>>

\* LocationGraph.addLocations(newLocations); priority is the draw made by the
\* TreapNode that Treap.insertNode creates
addLocations(newLocations, priority) ==
    LET combinedLocation == newLocations[1] \o Arrow \o newLocations[2]
    IN  /\ treap' = Treap_insert(treap, combinedLocation, priority)
        /\ trie' = Trie_insert(trie, combinedLocation)
        /\ locations' = Append(locations, combinedLocation)

\* LocationGraph.searchLocations(prefix)
searchLocations(prefix) == searchPrefix(treap, prefix)

\* LocationGraph.autocomplete(prefix)
autocomplete(prefix) == Trie_search(trie, prefix)

(***************************************************************************)
(* SpecGraph: a caller adding routes to a LocationGraph.                   *)
(***************************************************************************)
NewYork   == <<78, 101, 119, 32, 89, 111, 114, 107>>
NewJersey == <<78, 101, 119, 32, 74, 101, 114, 115, 101, 121>>
Newark    == <<78, 101, 119, 97, 114, 107>>
NEWARK    == <<78, 69, 87, 65, 82, 75>>
Boston    == <<66, 111, 115, 116, 111, 110>>
Miami     == <<77, 105, 97, 109, 105>>
LA        == <<76, 65>>

\* the [departure, arrival] pairs a caller adds
Routes == {<<NewYork, Boston>>, <<NewJersey, Miami>>, <<Newark, LA>>, <<NEWARK, LA>>}

AddRoute(newLocations, priority) ==
    /\ Len(locations) < MaxRoutes
    /\ addLocations(newLocations, priority)
    /\ UNCHANGED <<arrival_entry, destination_entry, autocomplete_listbox,
                   result_label, json_file, window, handler, words, keys, found>>

NextGraph == \E newLocations \in Routes, priority \in 1..MaxRoutePriority :
                 AddRoute(newLocations, priority)

SpecGraph == Init /\ [][NextGraph]_vars

\* the canonical keys "New York -> Boston", "New Jersey -> Miami",
\* "Newark -> LA" and "NEWARK -> LA", written out
KeyNewYorkBoston ==
    <<78, 101, 119, 32, 89, 111, 114, 107, 32, 45, 62, 32, 66, 111, 115, 116, 111, 110>>
KeyNewJerseyMiami ==
    <<78, 101, 119, 32, 74, 101, 114, 115, 101, 121, 32, 45, 62, 32, 77, 105, 97, 109, 105>>
KeyNewarkLA ==
    <<78, 101, 119, 97, 114, 107, 32, 45, 62, 32, 76, 65>>
KeyNEWARKLA ==
    <<78, 69, 87, 65, 82, 75, 32, 45, 62, 32, 76, 65>>

\* the canonical key of every route of Routes, in the order of the comment above
CanonicalKeys == {KeyNewYorkBoston, KeyNewJerseyMiami, KeyNewarkLA, KeyNEWARKLA}

\* exactly the three routes of the scenario have been added, once each
ScenarioAdded ==
    BagOfSeq(locations) = BagOfSeq(<<KeyNewYorkBoston, KeyNewJerseyMiami, KeyNewarkLA>>)

\* the prefixes queried in SpecGraph: "", "N", "New", "Newa", "New ", "New Y",
\* "Newark -> LA", "x", each as written, lower-cased and upper-cased
GraphQueries ==
    UNION {CaseVariants(p) : p \in {<<>>, <<78>>, <<78, 101, 119>>,
                                    <<78, 101, 119, 97>>, <<78, 101, 119, 32>>,
                                    <<78, 101, 119, 32, 89>>, KeyNewarkLA, <<120>>}}

NoDuplicates(s) == \A i, j \in 1..Len(s) : s[i] = s[j] => i = j

\* C5: with exactly the three routes added, autocomplete("new") returns exactly
\* the three canonical keys (any order) and autocomplete("newa") only
\* "Newark -> LA".
C5_AutocompleteScenario ==
    ScenarioAdded =>
        /\ Range(autocomplete(<<110, 101, 119>>))
               = {KeyNewYorkBoston, KeyNewJerseyMiami, KeyNewarkLA}
        /\ autocomplete(<<110, 101, 119, 97>>) = <<KeyNewarkLA>>

\* What the code does give for C5: the three keys lower-cased.
AutocompleteScenarioLowered ==
    ScenarioAdded =>
        /\ Range(autocomplete(<<110, 101, 119>>))
               = {lower(KeyNewYorkBoston), lower(KeyNewJerseyMiami), lower(KeyNewarkLA)}
        /\ autocomplete(<<110, 101, 119, 97>>) = <<lower(KeyNewarkLA)>>

\* C6: with exactly the three routes added, in any order and for any priority
\* draws, searchLocations("New") includes "New York -> Boston" and
\* "New Jersey -> Miami".
C6_RangeSearchScenario ==
    ScenarioAdded =>
        {KeyNewYorkBoston, KeyNewJerseyMiami}
            \subseteq Range(searchLocations(<<78, 101, 119>>))

\* C7: adding a route that was already added leaves the set autocomplete(p)
\* returns unchanged for every prefix p, and no autocomplete result ever holds
\* the same string twice.
C7_Idempotent ==
    /\ [](\A p \in GraphQueries : NoDuplicates(autocomplete(p)))
    /\ [][(\E k \in Range(locations) : locations' = Append(locations, k))
              => \A p \in GraphQueries :
                     Range(Trie_search(trie', p)) = Range(Trie_search(trie, p))]_vars

\* C7 witness: a route was added again after other routes, and autocomplete("")
\* lists the distinct routes.
C7_Witness ==
    /\ Len(locations) = 3
    /\ locations[3] = locations[1]
    /\ locations[2] # locations[1]
    /\ lower(locations[2]) # lower(locations[1])
    /\ Len(autocomplete(<<>>)) = 2

\* C8: prefixes that differ only in letter case get identical autocomplete
\* results (same strings, same order).
C8_CaseInsensitive ==
    \A p \in GraphQueries : \A q \in CaseVariants(p) \ {p} :
        autocomplete(p) = autocomplete(q)

\* C8 witness: "NEW" and "new" both list the same three routes.
C8_Witness ==
    /\ Len(autocomplete(<<78, 69, 87>>)) = 3
    /\ autocomplete(<<78, 69, 87>>) = autocomplete(<<110, 101, 119>>)

\* C9: locations only grows, by appending the canonical key of a route, and
\* the treap holds exactly the multiset of the keys of locations.
C9_ListAndTreap ==
    /\ [](/\ Range(locations) \subseteq CanonicalKeys
          /\ BagOfSeq(inorder(treap)) = BagOfSeq(locations))
    /\ [][\E k \in CanonicalKeys : locations' = Append(locations, k)]_vars

\* C9 witness: a key is held twice, and a rotation has moved a node that had
\* a subtree of its own.
C9_Witness ==
    /\ Len(locations) = 3
    /\ Cardinality(Range(locations)) = 2
    /\ treap[1].left # None
    /\ treap[1].right # None
    /\ treap[1].priority > treap[1].left[1].priority
    /\ treap[1].location = locations[3]

(***************************************************************************)
(* Spec: the App.  The user types into the two entries, submits, types a   *)
(* search text and closes the window.                                      *)
(***************************************************************************)
\* what the user types as arrival: "  ", "Newark", " New York "
ArrivalInputs == {<<32, 32>>, Newark, <<32>> \o NewYork \o <<32>>}

\* what the user types as destination: a tab and a space, "LA "
DestinationInputs == {<<9, 32>>, LA \o <<32>>}

\* what the user types as search text: "new", "NEWARK", "x"
SearchInputs == {<<110, 101, 119>>, NEWARK, <<120>>}

\* the user edits the arrival Entry
EnterArrival(text) ==
    /\ window = "open"
    /\ arrival_entry' = text
    /\ handler' = "Entry"
    /\ UNCHANGED <<locations, treap, trie, destination_entry, autocomplete_listbox,
                   result_label, json_file, window, words, keys, found>>

\* the user edits the destination Entry
EnterDestination(text) ==
    /\ window = "open"
    /\ destination_entry' = text
    /\ handler' = "Entry"
    /\ UNCHANGED <<locations, treap, trie, arrival_entry, autocomplete_listbox,
                   result_label, json_file, window, words, keys, found>>

submitLocations_nostrip(priority) ==
    LET arrivalLocation == arrival_entry
        destinationLocation == destination_entry
    IN  /\ window = "open"
        /\ handler' = "submitLocations"
        /\ IF arrivalLocation # <<>> /\ destinationLocation # <<>>
           THEN /\ Len(locations) < MaxSubmits
                /\ addLocations(<<arrivalLocation, destinationLocation>>, priority)
                /\ json_file' = [exists |-> TRUE,
                                 locations |-> Append(json_file.locations,
                                     [arrival |-> arrivalLocation,
                                      destination |-> destinationLocation])]
                /\ arrival_entry' = <<>>
                /\ destination_entry' = <<>>
                /\ result_label' = <<arrivalLocation, destinationLocation>>
                /\ UNCHANGED <<autocomplete_listbox, window, words, keys, found>>
           ELSE UNCHANGED <<locations, treap, trie, arrival_entry, destination_entry,
                            autocomplete_listbox, result_label, json_file, window,
                            words, keys, found>>

\* App.submitLocations(); priority is the draw made if a node is created.
\* locations.json is read as written by an earlier submission (or is absent or
\* empty, where data stays {"locations": []}).
submitLocations(priority) ==
    LET arrivalLocation == strip(arrival_entry)
        destinationLocation == strip(destination_entry)
    IN  /\ window = "open"
        /\ handler' = "submitLocations"
        /\ IF arrivalLocation # <<>> /\ destinationLocation # <<>>
           THEN /\ Len(locations) < MaxSubmits
                /\ addLocations(<<arrivalLocation, destinationLocation>>, priority)
                /\ json_file' = [exists |-> TRUE,
                                 locations |-> Append(json_file.locations,
                                     [arrival |-> arrivalLocation,
                                      destination |-> destinationLocation])]
                /\ arrival_entry' = <<>>
                /\ destination_entry' = <<>>
                /\ result_label' = <<arrivalLocation, destinationLocation>>
                /\ UNCHANGED <<autocomplete_listbox, window, words, keys, found>>
           ELSE UNCHANGED <<locations, treap, trie, arrival_entry, destination_entry,
                            autocomplete_listbox, result_label, json_file, window,
                            words, keys, found>>

\* App.onSearch(event); prefix is the text of search_entry
onSearch(prefix) ==
    /\ window = "open"
    /\ handler' = "onSearch"
    /\ autocomplete_listbox' = autocomplete(prefix)
    /\ UNCHANGED <<locations, treap, trie, arrival_entry, destination_entry,
                   result_label, json_file, window, words, keys, found>>

\* App.clearJson(): empties locations.json if it exists, destroys the window
clearJson ==
    /\ window = "open"
    /\ handler' = "clearJson"
    /\ json_file' = [json_file EXCEPT !.locations = <<>>]
    /\ window' = "destroyed"
    /\ UNCHANGED <<locations, treap, trie, arrival_entry, destination_entry,
                   autocomplete_listbox, result_label, words, keys, found>>

Next ==
    \/ \E text \in ArrivalInputs : EnterArrival(text)
    \/ \E text \in DestinationInputs : EnterDestination(text)
    \/ \E priority \in 1..MaxRoutePriority : submitLocations(priority)
    \/ \E prefix \in SearchInputs : onSearch(prefix)
    \/ clearJson

Spec == Init /\ [][Next]_vars

\* key has an empty departure or an empty arrival: it starts or ends with "->"
\* once its own leading and trailing whitespace is set aside
EmptySide(key) ==
    \/ startswith(lstrip(key), <<45, 62>>)
    \/ LET k == rstrip(key)
       IN  Len(k) >= 2 /\ SubSeq(k, Len(k) - 1, Len(k)) = <<45, 62>>

\* C10: a submission whose arrival or destination is empty after trimming
\* leaves locations, the treap and the trie unchanged, and no key with an
\* empty side is ever in the index.
C10_EmptyRejected ==
    /\ [](\A k \in Range(locations) \cup Range(inorder(treap))
                   \cup Range(autocomplete(<<>>)) : ~EmptySide(k))
    /\ [][(/\ handler' = "submitLocations"
           /\ (strip(arrival_entry) = <<>> \/ strip(destination_entry) = <<>>))
              => UNCHANGED <<locations, treap, trie>>]_vars

\* C10 witness: submitLocations has just run on a whitespace-only arrival and
\* a non-empty destination, with a route already in the index, and the
\* entries are as the user typed them.
C10_Witness ==
    /\ handler = "submitLocations"
    /\ arrival_entry # <<>> /\ strip(arrival_entry) = <<>>
    /\ strip(destination_entry) # <<>>
    /\ Len(locations) = 1
    /\ size(treap) = 1

====
